---------------------------- MODULE Spec2Model ----------------------------
(***************************************************************************)
(* Driver lifecycle and configuration resolution of the UI test-automation *)
(* framework: ConfigParser (utils/config_parser.py), DriverSetup           *)
(* (utils/driver_setup.py), WebDriverSetup (utils/web_driver_setup.py) and *)
(* MobileDriverSetup (utils/mobile_driver_setup.py).                       *)
(*                                                                         *)
(* One behaviour follows ONE object of one of the four classes, from the   *)
(* call of its constructor on.  Every action is one whole method call made *)
(* by a single caller (the code is synchronous).  The configuration file   *)
(* and the outcomes of the external collaborators (the driver manager, the *)
(* browser constructors, appium's Remote, driver.quit()) are the inputs.   *)
(* Spec is the object called directly; FixtureSpec is the object driven by *)
(* its pytest session fixture (tests/conftest.py), one action per run of   *)
(* the generator between two suspensions.                                  *)
(*                                                                         *)
(* WebDriverSetup.__init__ reads self.config before it assigns it.  The    *)
(* class as written has no `config` attribute (configStub = FALSE).  With  *)
(* configStub = TRUE a test double has put a ConfigParser over the same    *)
(* document on the class beforehand (mock.patch.object(..., create=True)): *)
(* the one way a WebDriverSetup object, and so a call of its create_driver *)
(* and quit_driver, comes to exist.                                        *)
(***************************************************************************)
EXTENDS Integers, Sequences, FiniteSets, TLC

VARIABLES
    cls,         \* the class of the object under study
    fileState,   \* what open('config/config.json') + json.load meet
    doc,         \* the JSON document the file holds
    configStub,  \* a test double put a `config` attribute on the WebDriverSetup class
    inst,        \* "none": no object yet (or __init__ raised); "live": __init__ returned
    attrs,       \* the object's attributes other than the handle
    driver,      \* self.driver: 0 is None, n > 0 is the n-th session opened
    opened,      \* the sessions the object opened, in order, with their quit() history
    last,        \* the last call made: operation, outcome, log records, collaborator calls
    held,        \* the handle the caller of create got back and keeps (0: none)
    page,        \* BasePage.driver of the page object built on the handle (0: no page)
    fx,          \* the session fixture generator: where it is and what it did
    pattrs,      \* the page object: its class and whether it has a `logger` attribute
    thr          \* the callers inside quit_driver: where each is and what it loaded

vars ==
    <<cls, fileState, doc, configStub, inst, attrs, driver, opened, last, held, page, fx, pattrs,
      thr>>

\* The most sessions one object opens in a behaviour.
MaxSessions == 2

\* The callers (threads, test workers) that share one provider object, and
\* the most calls of quit_driver each makes.
MaxCallers == 2

MaxCalls == 2

Callers == 1..MaxCallers

-----------------------------------------------------------------------------
(* Exceptions.  `kind` is the Python class, `site` the place that created   *)
(* the exception object, `ctx` the kind of the exception being handled when *)
(* it was created (Python's implicit __context__), "none" otherwise.  A     *)
(* bare `raise` re-raises the very same object.                             *)

Exc(kind, site, ctx) == [kind |-> kind, site |-> site, ctx |-> ctx]

NoExc == Exc("none", "", "none")

\* selenium.common.exceptions: SessionNotCreatedException is a WebDriverException.
IsWebDriverException(kind) == kind \in {"SessionNotCreatedException", "WebDriverException"}

\* `except Exception` catches every kind but the BaseException-only ones.
IsException(kind) == kind \notin {"none", "KeyboardInterrupt"}

\* What an external collaborator can raise: the two selenium kinds, one other
\* Exception and one BaseException that is no Exception.
FaultKinds == {"SessionNotCreatedException", "WebDriverException", "RuntimeError", "KeyboardInterrupt"}

-----------------------------------------------------------------------------
(* Strings whose letter case matters are sequences of characters.           *)

LowerChar(c) ==
    CASE c = "C" -> "c" [] c = "H" -> "h" [] c = "R" -> "r" [] c = "O" -> "o"
      [] c = "M" -> "m" [] c = "E" -> "e" [] c = "F" -> "f" [] c = "I" -> "i"
      [] c = "X" -> "x" [] c = "D" -> "d" [] c = "G" -> "g" [] c = "S" -> "s"
      [] c = "A" -> "a" [] c = "N" -> "n" [] c = "L" -> "l" [] c = "U" -> "u"
      [] c = "B" -> "b" [] c = "T" -> "t" [] c = "P" -> "p" [] OTHER -> c

\* str.lower()
Lower(s) == [i \in 1..Len(s) |-> LowerChar(s[i])]

SupportedBrowsers ==
    { <<"c","h","r","o","m","e">>, <<"f","i","r","e","f","o","x">>, <<"e","d","g","e">> }

\* The browser names a configuration file is given in the model.
BrowserNames ==
    { <<"c","h","r","o","m","e">>, <<"C","h","r","o","m","e">>, <<"E","D","G","E">>,
      <<"F","i","r","e","F","o","x">>, <<"s","a","f","a","r","i">>, <<>> }

-----------------------------------------------------------------------------
(* The configuration document: any JSON value json.load can return.  `shape`*)
(* tells a JSON object from another JSON value; a key of an object is a     *)
(* value with t = "absent" when the object does not hold it.                *)

Absent == [t |-> "absent", s |-> <<>>]

BrowserValues ==
    {Absent, [t |-> "num", s |-> <<>>]} \cup {[t |-> "str", s |-> n] : n \in BrowserNames}

UrlsValues == {[t |-> "absent", m |-> <<>>], [t |-> "obj", m |-> [home |-> "https://example.org"]]}

ServerValues ==
    {[t |-> "absent", s |-> ""], [t |-> "str", s |-> "http://localhost:4723"],
     [t |-> "str", s |-> "http://10.0.0.5:4723/wd/hub"]}

CapsValues ==
    {[t |-> "absent", m |-> <<>>], [t |-> "arr", m |-> <<>>],
     [t |-> "obj", m |-> [platformName |-> "Android"]],
     [t |-> "obj", m |-> [platformName |-> "Android", deviceName |-> "emulator-5554"]]}

NoWeb(shape) == [shape |-> shape, browser |-> Absent, urls |-> [t |-> "absent", m |-> <<>>]]

NoMobile(shape) ==
    [shape |-> shape, appium_server |-> [t |-> "absent", s |-> ""],
     desired_capabilities |-> [t |-> "absent", m |-> <<>>]]

WebSections ==
    {NoWeb("absent"), NoWeb("null")}
        \cup [shape : {"object"}, browser : BrowserValues, urls : UrlsValues]

MobileSections ==
    {NoMobile("absent"), NoMobile("null")}
        \cup [shape : {"object"}, appium_server : ServerValues, desired_capabilities : CapsValues]

\* A complete section, used where the class under study never reads the section.
SomeWeb ==
    [shape |-> "object", browser |-> [t |-> "str", s |-> <<"c","h","r","o","m","e">>],
     urls |-> [t |-> "obj", m |-> [home |-> "https://example.org"]]]

SomeMobile ==
    [shape |-> "object", appium_server |-> [t |-> "str", s |-> "http://localhost:4723"],
     desired_capabilities |-> [t |-> "obj", m |-> [platformName |-> "Android"]]]

ArrayDoc == [shape |-> "array", WEB |-> NoWeb("absent"), MOBILE |-> NoMobile("absent")]

Docs(webs, mobiles) == {ArrayDoc} \cup [shape : {"object"}, WEB : webs, MOBILE : mobiles]

FileStates == {"ok", "missing", "unreadable", "invalid_json"}


-----------------------------------------------------------------------------
(* ConfigParser.                                                            *)

NoVal == [t |-> "none"]

Raise(e) == [exc |-> e, val |-> NoVal]

Return(v) == [exc |-> NoExc, val |-> v]

\* self.config[section][key]: subscripting a JSON value that is no object is
\* a TypeError, a key an object does not hold is a KeyError.
Subscript(d, section, key) ==
    IF d.shape # "object" THEN Raise(Exc("TypeError", "subscript", "none"))
    ELSE IF d[section].shape = "absent" THEN Raise(Exc("KeyError", "subscript", "none"))
    ELSE IF d[section].shape # "object" THEN Raise(Exc("TypeError", "subscript", "none"))
    ELSE IF d[section][key].t = "absent" THEN Raise(Exc("KeyError", "subscript", "none"))
    ELSE Return(d[section][key])

\* ConfigParser.__init__ with every failure of open/json.load caught and
\* raised as FileNotFoundError (`except Exception` for `except FileNotFoundError`).
ConfigParser_init_CatchAll(fs) ==
    IF fs = "ok" THEN NoExc
    ELSE Exc("FileNotFoundError", "ConfigParser.__init__", "Exception")

\* ConfigParser.__init__: the document loaded, or the error open/json.load gave.
\* Only FileNotFoundError is caught (and raised anew).
ConfigParser_init(fs) ==
    CASE fs = "ok" -> NoExc
      [] fs = "missing" -> Exc("FileNotFoundError", "ConfigParser.__init__", "FileNotFoundError")
      [] fs = "unreadable" -> Exc("PermissionError", "open", "none")
      [] fs = "invalid_json" -> Exc("JSONDecodeError", "json.load", "none")

get_web_urls(d) ==
    LET r == Subscript(d, "WEB", "urls")
    IN  IF r.exc.kind = "KeyError"
        THEN Raise(Exc("KeyError", "ConfigParser.get_web_urls", "KeyError"))
        ELSE r

\* get_web_browser reading with dict.get and a default: a missing section or
\* key gives 'chrome'.
get_web_browser_Default(d) ==
    LET r == Subscript(d, "WEB", "browser")
    IN  IF r.exc.kind = "KeyError"
        THEN Return([t |-> "str", s |-> <<"c","h","r","o","m","e">>])
        ELSE IF r.exc # NoExc THEN r
        ELSE IF r.val.t # "str" THEN Raise(Exc("AttributeError", "lower", "none"))
        ELSE Return([t |-> "str", s |-> Lower(r.val.s)])

get_web_browser(d) ==
    LET r == Subscript(d, "WEB", "browser")
    IN  IF r.exc.kind = "KeyError"
        THEN Raise(Exc("KeyError", "ConfigParser.get_web_browser", "KeyError"))
        ELSE IF r.exc # NoExc THEN r
        ELSE IF r.val.t # "str" THEN Raise(Exc("AttributeError", "lower", "none"))
        ELSE Return([t |-> "str", s |-> Lower(r.val.s)])

get_mobile_appium_server(d) ==
    LET r == Subscript(d, "MOBILE", "appium_server")
    IN  IF r.exc.kind = "KeyError"
        THEN Raise(Exc("KeyError", "ConfigParser.get_mobile_appium_server", "KeyError"))
        ELSE r

get_mobile_desired_capabilities(d) ==
    LET r == Subscript(d, "MOBILE", "desired_capabilities")
    IN  IF r.exc.kind = "KeyError"
        THEN Raise(Exc("KeyError", "ConfigParser.get_mobile_desired_capabilities", "KeyError"))
        ELSE r

-----------------------------------------------------------------------------
(* The record of a call.  op: the method; exc: what reached the caller;     *)
(* fault: what the external collaborator raised inside the call; pre: the   *)
(* handle when the call began; ret: the handle returned; val: the value an  *)
(* accessor returned; errLogs: error-level log records written; quits:      *)
(* calls of driver.quit(); attempts: calls of a session constructor;        *)
(* remote: the arguments webdriver.Remote was called with.  For a call of a *)
(* page-object method, env: how the driver answers; acts: calls that ask    *)
(* the driver for a gesture or a lookup; taps: the positions passed to      *)
(* driver.tap; returned: the method returned normally.                      *)

NoRemote == [called |-> FALSE, url |-> "", options |-> [cls |-> "", caps |-> <<>>]]

\* No arguments recorded (the arguments of the W3C tap are).
NoArgs == [loc |-> [x |-> 0, y |-> 0], type |-> <<>>, point |-> "none"]

NoCall ==
    [op |-> "none", exc |-> NoExc, fault |-> NoExc, pre |-> 0, ret |-> 0, val |-> NoVal,
     errLogs |-> 0, quits |-> 0, attempts |-> 0, remote |-> NoRemote,
     env |-> "none", acts |-> 0, taps |-> <<>>, returned |-> FALSE,
     args |-> NoArgs]

\* A caller outside quit_driver: pc is its place in the method, ref the handle
\* it loaded for the quit() call, exc what its last call raised.
NoCaller == [pc |-> "idle", ref |-> 0, exc |-> NoExc, errLogs |-> 0, calls |-> 0]

NoCallers == [t \in Callers |-> NoCaller]

\* No page object.
NoPage == [cls |-> "none", logger |-> FALSE]

NoAttrs ==
    [browser |-> <<>>, appium_server_url |-> [t |-> "absent", s |-> ""],
     desired_capabilities |-> [t |-> "absent", m |-> <<>>]]

Classes == {"ConfigParser", "DriverSetup", "WebDriverSetup", "MobileDriverSetup"}

\* The documents a behaviour starts from: every shape of the section the class
\* reads, a complete section where it reads none.
DocsOf(c) ==
    CASE c = "ConfigParser" -> Docs(WebSections, {SomeMobile}) \cup Docs({SomeWeb}, MobileSections)
      [] c = "DriverSetup" -> {ArrayDoc, [shape |-> "object", WEB |-> SomeWeb, MOBILE |-> SomeMobile]}
      [] c = "WebDriverSetup" -> Docs(WebSections, {SomeMobile})
      [] c = "MobileDriverSetup" -> Docs({SomeWeb}, MobileSections)

\* fx.  pc: "off" no fixture in use, "idle" requested and not started,
\* "yielded" suspended at its yield, "done" finished; env: how the session
\* collaborator answers during setup; yielded: the handle given to the test;
\* quitCalls: calls of quit_driver made; errLogs: error records written by the
\* fixture and below it; exc: what left the generator; how: how it was resumed;
\* first: the first exception raised inside the generator.
FxState(pc, env, y, calls, logs, e, how) ==
    [pc |-> pc, env |-> env, yielded |-> y, quitCalls |-> calls, errLogs |-> logs,
     exc |-> e, how |-> how, first |-> e]

NoFixture == FxState("off", "", 0, 0, 0, NoExc, "")

Init ==
    /\ cls \in Classes
    /\ fileState \in FileStates
    /\ doc \in DocsOf(cls)
    /\ fileState # "ok" => doc = ArrayDoc
    /\ configStub \in BOOLEAN
    /\ configStub => cls = "WebDriverSetup"
    /\ inst = "none"
    /\ attrs = NoAttrs
    /\ driver = 0
    /\ opened = <<>>
    /\ last = NoCall
    /\ held = 0
    /\ page = 0
    /\ fx = NoFixture
    /\ pattrs = NoPage
    /\ thr = NoCallers

-----------------------------------------------------------------------------
(* Constructors.                                                            *)

\* ConfigParser(): the object exists when __init__ raised nothing.
NewConfigParser ==
    /\ cls = "ConfigParser"
    /\ inst = "none"
    /\ LET e == ConfigParser_init(fileState)
       IN  /\ inst' = IF e = NoExc THEN "live" ELSE "none"
           /\ last' = [NoCall EXCEPT !.op = "ConfigParser", !.exc = e]
    /\ UNCHANGED <<thr, pattrs, cls, fileState, doc, configStub, attrs, driver, opened, held,
                   page, fx>>

\* A direct call of one accessor of a loaded ConfigParser (the object itself,
\* or the self.config of a provider).
CallAccessor(name, r) ==
    /\ inst = "live"
    /\ last' = [NoCall EXCEPT !.op = name, !.exc = r.exc, !.val = r.val, !.pre = driver]
    /\ UNCHANGED <<thr, pattrs, cls, fileState, doc, configStub, inst, attrs, driver, opened,
                   held, page, fx>>

Call_get_web_urls == CallAccessor("get_web_urls", get_web_urls(doc))

Call_get_web_browser == CallAccessor("get_web_browser", get_web_browser(doc))

Call_get_mobile_appium_server ==
    CallAccessor("get_mobile_appium_server", get_mobile_appium_server(doc))

Call_get_mobile_desired_capabilities ==
    CallAccessor("get_mobile_desired_capabilities", get_mobile_desired_capabilities(doc))

-----------------------------------------------------------------------------
(* DriverSetup.                                                             *)

\* DriverSetup.__init__: self.driver = None, then self.config = ConfigParser().
DriverSetup_init(fs) == [exc |-> ConfigParser_init(fs), errLogs |-> 0, attrs |-> NoAttrs]

\* quit_driver of a handle h, driver.quit() ending as o ("ok" or a fault kind).
QuitResult(h, e, logs, n) ==
    [driver |-> h, exc |-> e, fault |-> e, errLogs |-> logs, quits |-> n]

\* quit_driver without the `is not None` test: None has no quit().
DriverSetup_quit_driver_NoGuard(h, o) ==
    IF h # 0
    THEN IF o = "ok" THEN QuitResult(0, NoExc, 0, 1)
         ELSE QuitResult(0, Exc(o, "driver.quit", "none"),
                         IF IsWebDriverException(o) THEN 1 ELSE 0, 1)
    ELSE QuitResult(0, Exc("AttributeError", "self.driver.quit", "none"), 0, 0)

DriverSetup_quit_driver(h, o) ==
    IF h # 0
    THEN IF o = "ok" THEN QuitResult(0, NoExc, 0, 1)
         ELSE QuitResult(0, Exc(o, "driver.quit", "none"),
                         IF IsWebDriverException(o) THEN 1 ELSE 0, 1)
    ELSE QuitResult(h, NoExc, 0, 0)

-----------------------------------------------------------------------------
(* WebDriverSetup.                                                          *)

\* get_specified_browser.  hasConfig: the lookup of self.config finds an
\* attribute (on the object or on its class).
get_specified_browser(hasConfig, d) ==
    IF ~hasConfig
    THEN [exc |-> Exc("AttributeError", "self.config", "none"), fault |-> NoExc,
          val |-> <<>>, errLogs |-> 1]
    ELSE LET r == get_web_browser(d)
         IN  IF r.exc # NoExc
             THEN [exc |-> r.exc, fault |-> r.exc, val |-> <<>>, errLogs |-> 1]
             ELSE IF Lower(r.val.s) \notin SupportedBrowsers
             THEN [exc |-> Exc("ValueError", "get_specified_browser", "none"), fault |-> NoExc,
                   val |-> <<>>, errLogs |-> 2]
             ELSE [exc |-> NoExc, fault |-> NoExc, val |-> Lower(r.val.s), errLogs |-> 0]

\* WebDriverSetup.__init__: self.driver = None; self.browser =
\* self.get_specified_browser(); self.config = ConfigParser(), in this order.
WebDriverSetup_init(stub, fs, d) ==
    LET b == get_specified_browser(stub, d)
        e == ConfigParser_init(fs)
    IN  IF b.exc # NoExc THEN [exc |-> b.exc, errLogs |-> b.errLogs, attrs |-> NoAttrs]
        ELSE IF e # NoExc THEN [exc |-> e, errLogs |-> 0, attrs |-> NoAttrs]
        ELSE [exc |-> NoExc, errLogs |-> 0, attrs |-> [NoAttrs EXCEPT !.browser = b.val]]

\* The outcomes of the external calls of _initialize_driver: all return, or
\* the driver manager's install() or the browser constructor raises.
WebOutcomes ==
    {[point |-> "none", kind |-> "ok"]} \cup [point : {"install", "construct"}, kind : FaultKinds]

NoSession == [kind |-> "", url |-> "", options |-> [cls |-> "", caps |-> <<>>], quits |-> 0, quitExc |-> "none"]

Session(kind, url, options) ==
    [kind |-> kind, url |-> url, options |-> options, quits |-> 0, quitExc |-> "none"]

CreateResult(h, e, f, ret, logs, n, rem, new, sess) ==
    [driver |-> h, exc |-> e, fault |-> f, ret |-> ret, errLogs |-> logs, attempts |-> n,
     remote |-> rem, new |-> new, session |-> sess]

\* The dispatch with the edge branch constructing webdriver.Chrome.
BrowserClass_EdgeAsChrome(b) ==
    CASE b = <<"c","h","r","o","m","e">> -> "Chrome"
      [] b = <<"e","d","g","e">> -> "Chrome"
      [] b = <<"f","i","r","e","f","o","x">> -> "Firefox"
      [] OTHER -> ""

\* The webdriver class the if/elif chain of _initialize_driver constructs.
BrowserClass(b) ==
    CASE b = <<"c","h","r","o","m","e">> -> "Chrome"
      [] b = <<"e","d","g","e">> -> "Edge"
      [] b = <<"f","i","r","e","f","o","x">> -> "Firefox"
      [] OTHER -> ""

\* _initialize_driver with `self.driver = None` in its except clauses.
initialize_driver_ResetOnFailure(h, b, o, id) ==
    IF BrowserClass(b) = ""
    THEN CreateResult(h, Exc("ValueError", "_initialize_driver", "none"), NoExc, 0, 1, 0,
                      NoRemote, FALSE, NoSession)
    ELSE IF o.kind = "ok"
    THEN CreateResult(id, NoExc, NoExc, 0, 0, 1, NoRemote, TRUE,
                      Session(BrowserClass(b), "", [cls |-> "", caps |-> <<>>]))
    ELSE LET f == Exc(o.kind, o.point, "none")
         IN  CreateResult(IF IsWebDriverException(o.kind) THEN 0 ELSE h, f, f, 0,
                          IF IsWebDriverException(o.kind) THEN 1 ELSE 0,
                          IF o.point = "construct" THEN 1 ELSE 0, NoRemote, FALSE, NoSession)

\* _initialize_driver: dispatch on self.browser; self.driver is assigned only
\* when the browser constructor returned.  id names the session it opens.
initialize_driver(h, b, o, id) ==
    IF BrowserClass(b) = ""
    THEN CreateResult(h, Exc("ValueError", "_initialize_driver", "none"), NoExc, 0, 1, 0,
                      NoRemote, FALSE, NoSession)
    ELSE IF o.kind = "ok"
    THEN CreateResult(id, NoExc, NoExc, 0, 0, 1, NoRemote, TRUE,
                      Session(BrowserClass(b), "", [cls |-> "", caps |-> <<>>]))
    ELSE LET f == Exc(o.kind, o.point, "none")
         IN  CreateResult(h, f, f, 0, IF IsWebDriverException(o.kind) THEN 1 ELSE 0,
                          IF o.point = "construct" THEN 1 ELSE 0, NoRemote, FALSE, NoSession)

\* create_driver calling _initialize_driver a second time after an Exception
\* (the second attempt ending as the first).
create_driver_RetryOnce(h, b, o, id) ==
    LET r == initialize_driver(h, b, o, id)
    IN  IF r.exc = NoExc THEN [r EXCEPT !.ret = r.driver]
        ELSE IF IsException(r.exc.kind)
        THEN [r EXCEPT !.errLogs = 2 * @ + 1, !.attempts = 2 * @]
        ELSE r

\* create_driver ending its except clause with `raise RuntimeError(...) from e`.
create_driver_Translate(h, b, o, id) ==
    LET r == initialize_driver(h, b, o, id)
    IN  IF r.exc = NoExc THEN [r EXCEPT !.ret = r.driver]
        ELSE IF IsException(r.exc.kind)
        THEN [r EXCEPT !.errLogs = @ + 1,
                       !.exc = Exc("RuntimeError", "create_driver", r.exc.kind)]
        ELSE r

\* create_driver: _initialize_driver, then return self.driver; every Exception
\* is logged once more and re-raised.
create_driver(h, b, o, id) ==
    LET r == initialize_driver(h, b, o, id)
    IN  IF r.exc = NoExc THEN [r EXCEPT !.ret = r.driver]
        ELSE IF IsException(r.exc.kind) THEN [r EXCEPT !.errLogs = @ + 1]
        ELSE r

\* quit_driver without `self.driver = None`: the handle is kept.
WebDriverSetup_quit_driver_NeverNull(h, o) ==
    IF h # 0
    THEN IF o = "ok" THEN QuitResult(h, NoExc, 0, 1)
         ELSE QuitResult(h, Exc(o, "driver.quit", "none"),
                         IF IsWebDriverException(o) THEN 1 ELSE 0, 1)
    ELSE QuitResult(h, NoExc, 0, 0)

\* quit_driver with `self.driver = None` after driver.quit() inside the try
\* and no finally: a failed quit() keeps the handle.
WebDriverSetup_quit_driver_NoFinally(h, o) ==
    IF h # 0
    THEN IF o = "ok" THEN QuitResult(0, NoExc, 0, 1)
         ELSE QuitResult(h, Exc(o, "driver.quit", "none"),
                         IF IsWebDriverException(o) THEN 1 ELSE 0, 1)
    ELSE QuitResult(h, NoExc, 0, 0)

WebDriverSetup_quit_driver(h, o) ==
    IF h # 0
    THEN IF o = "ok" THEN QuitResult(0, NoExc, 0, 1)
         ELSE QuitResult(0, Exc(o, "driver.quit", "none"),
                         IF IsWebDriverException(o) THEN 1 ELSE 0, 1)
    ELSE QuitResult(h, NoExc, 0, 0)

-----------------------------------------------------------------------------
(* MobileDriverSetup.                                                       *)

\* The readers' `except Exception` without its logger.error call.
Logged_Silent(r) == [exc |-> r.exc, fault |-> r.exc, val |-> r.val, errLogs |-> 0]

\* try: return self.config.<accessor>() / except Exception: logger.error; raise.
\* fault is what the accessor raised.
Logged(r) ==
    [exc |-> r.exc, fault |-> r.exc, val |-> r.val,
     errLogs |-> IF IsException(r.exc.kind) THEN 1 ELSE 0]

get_appium_server_url(d) == Logged(get_mobile_appium_server(d))

MobileDriverSetup_get_mobile_desired_capabilities(d) == Logged(get_mobile_desired_capabilities(d))

\* MobileDriverSetup.__init__ loading the file only, the two values being
\* read when first used.
MobileDriverSetup_init_Lazy(fs, d) ==
    LET e == ConfigParser_init(fs)
        u == get_appium_server_url(d)
        c == MobileDriverSetup_get_mobile_desired_capabilities(d)
    IN  IF e # NoExc THEN [exc |-> e, errLogs |-> 0, attrs |-> NoAttrs]
        ELSE [exc |-> NoExc, errLogs |-> 0,
              attrs |-> [NoAttrs EXCEPT
                           !.appium_server_url = IF u.exc = NoExc THEN u.val ELSE @,
                           !.desired_capabilities = IF c.exc = NoExc THEN c.val ELSE @]]

\* MobileDriverSetup.__init__: self.driver = None; self.config = ConfigParser();
\* then the server URL and the capability mapping are read, in this order.
MobileDriverSetup_init(fs, d) ==
    LET e == ConfigParser_init(fs)
        u == get_appium_server_url(d)
        c == MobileDriverSetup_get_mobile_desired_capabilities(d)
    IN  IF e # NoExc THEN [exc |-> e, errLogs |-> 0, attrs |-> NoAttrs]
        ELSE IF u.exc # NoExc THEN [exc |-> u.exc, errLogs |-> u.errLogs, attrs |-> NoAttrs]
        ELSE IF c.exc # NoExc THEN [exc |-> c.exc, errLogs |-> c.errLogs, attrs |-> NoAttrs]
        ELSE [exc |-> NoExc, errLogs |-> 0,
              attrs |-> [NoAttrs EXCEPT !.appium_server_url = u.val,
                                        !.desired_capabilities = c.val]]

\* UiAutomator2Options().load_capabilities(caps): an options object holding
\* the capabilities of the mapping; a value with no items() is an AttributeError.
load_capabilities(caps) ==
    IF caps.t # "obj"
    THEN [exc |-> Exc("AttributeError", "load_capabilities", "none"), options |-> NoRemote.options]
    ELSE [exc |-> NoExc, options |-> [cls |-> "UiAutomator2Options", caps |-> caps.m]]

\* create_mobile_driver binding the new session to a local name instead of
\* self.driver.
create_mobile_driver_LocalHandle(h, a, o, id) ==
    LET l == load_capabilities(a.desired_capabilities)
        call == [called |-> TRUE, url |-> a.appium_server_url.s, options |-> l.options]
    IN  IF l.exc # NoExc
        THEN CreateResult(h, l.exc, NoExc, 0, 1, 0, NoRemote, FALSE, NoSession)
        ELSE IF o = "ok"
        THEN CreateResult(h, NoExc, NoExc, id, 0, 1, call, TRUE,
                          Session("Remote", call.url, call.options))
        ELSE LET f == Exc(o, "webdriver.Remote", "none")
             IN  CreateResult(h, f, f, 0, IF IsException(o) THEN 1 ELSE 0, 1, call,
                              FALSE, NoSession)

\* create_mobile_driver calling Remote with appium's default server address
\* instead of self.appium_server_url.
create_mobile_driver_DefaultUrl(h, a, o, id) ==
    LET l == load_capabilities(a.desired_capabilities)
        call == [called |-> TRUE, url |-> "http://localhost:4723", options |-> l.options]
    IN  IF l.exc # NoExc
        THEN CreateResult(h, l.exc, NoExc, 0, 1, 0, NoRemote, FALSE, NoSession)
        ELSE IF o = "ok"
        THEN CreateResult(id, NoExc, NoExc, id, 0, 1, call, TRUE,
                          Session("Remote", call.url, call.options))
        ELSE LET f == Exc(o, "webdriver.Remote", "none")
             IN  CreateResult(h, f, f, 0, IF IsException(o) THEN 1 ELSE 0, 1, call,
                              FALSE, NoSession)

\* create_mobile_driver wrapping what Remote raised: `raise RuntimeError(...) from e`.
create_mobile_driver_Translate(h, a, o, id) ==
    LET l == load_capabilities(a.desired_capabilities)
        call == [called |-> TRUE, url |-> a.appium_server_url.s, options |-> l.options]
    IN  IF l.exc # NoExc
        THEN CreateResult(h, l.exc, NoExc, 0, 1, 0, NoRemote, FALSE, NoSession)
        ELSE IF o = "ok"
        THEN CreateResult(id, NoExc, NoExc, id, 0, 1, call, TRUE,
                          Session("Remote", call.url, call.options))
        ELSE LET f == Exc(o, "webdriver.Remote", "none")
             IN  CreateResult(h, IF IsException(o)
                                 THEN Exc("RuntimeError", "create_mobile_driver", o) ELSE f,
                              f, 0, IF IsException(o) THEN 1 ELSE 0, 1, call, FALSE, NoSession)

\* create_mobile_driver with webdriver.Remote ending as o; id names the
\* session it opens.  self.driver is assigned only when Remote returned.
create_mobile_driver(h, a, o, id) ==
    LET l == load_capabilities(a.desired_capabilities)
        call == [called |-> TRUE, url |-> a.appium_server_url.s, options |-> l.options]
    IN  IF l.exc # NoExc
        THEN CreateResult(h, l.exc, NoExc, 0, 1, 0, NoRemote, FALSE, NoSession)
        ELSE IF o = "ok"
        THEN CreateResult(id, NoExc, NoExc, id, 0, 1, call, TRUE,
                          Session("Remote", call.url, call.options))
        ELSE LET f == Exc(o, "webdriver.Remote", "none")
             IN  CreateResult(h, f, f, 0, IF IsException(o) THEN 1 ELSE 0, 1, call,
                              FALSE, NoSession)

\* quit_driver without the `is not None` test: None has no quit().
MobileDriverSetup_quit_driver_NoGuard(h, o) ==
    IF h # 0
    THEN IF o = "ok" THEN QuitResult(0, NoExc, 0, 1)
         ELSE QuitResult(0, Exc(o, "driver.quit", "none"),
                         IF IsWebDriverException(o) THEN 1 ELSE 0, 1)
    ELSE [QuitResult(0, Exc("AttributeError", "self.driver.quit", "none"), 0, 0)
            EXCEPT !.fault = NoExc]

\* quit_driver raising a new teardown error from the WebDriverException caught.
MobileDriverSetup_quit_driver_Wrap(h, o) ==
    IF h # 0
    THEN IF o = "ok" THEN QuitResult(0, NoExc, 0, 1)
         ELSE [QuitResult(0, Exc(o, "driver.quit", "none"),
                          IF IsWebDriverException(o) THEN 1 ELSE 0, 1)
                 EXCEPT !.exc = IF IsWebDriverException(o)
                                THEN Exc("DriverTeardownError", "quit_driver", o) ELSE @]
    ELSE QuitResult(h, NoExc, 0, 0)

\* quit_driver nulling the handle in the except clause only: an error that is
\* no WebDriverException keeps the handle.
MobileDriverSetup_quit_driver_NullInExcept(h, o) ==
    IF h # 0
    THEN IF o = "ok" THEN QuitResult(0, NoExc, 0, 1)
         ELSE QuitResult(IF IsWebDriverException(o) THEN 0 ELSE h,
                         Exc(o, "driver.quit", "none"),
                         IF IsWebDriverException(o) THEN 1 ELSE 0, 1)
    ELSE QuitResult(h, NoExc, 0, 0)

MobileDriverSetup_quit_driver(h, o) ==
    IF h # 0
    THEN IF o = "ok" THEN QuitResult(0, NoExc, 0, 1)
         ELSE QuitResult(0, Exc(o, "driver.quit", "none"),
                         IF IsWebDriverException(o) THEN 1 ELSE 0, 1)
    ELSE QuitResult(h, NoExc, 0, 0)

-----------------------------------------------------------------------------
(* The calls on a provider.                                                 *)

Construct(c, r) ==
    /\ cls = c
    /\ inst = "none"
    /\ inst' = IF r.exc = NoExc THEN "live" ELSE "none"
    /\ attrs' = r.attrs
    /\ last' = [NoCall EXCEPT !.op = c, !.exc = r.exc, !.errLogs = r.errLogs]
    /\ UNCHANGED <<thr, pattrs, cls, fileState, doc, configStub, driver, opened, held, page, fx>>

NewDriverSetup == Construct("DriverSetup", DriverSetup_init(fileState))

NewWebDriverSetup == Construct("WebDriverSetup", WebDriverSetup_init(configStub, fileState, doc))

NewMobileDriverSetup == Construct("MobileDriverSetup", MobileDriverSetup_init(fileState, doc))

\* A create call; the caller binds what a call that returned gave back
\* (web_driver = web_driver_setup_obj.create_driver()).
Create(op, r) ==
    /\ driver' = r.driver
    /\ opened' = IF r.new THEN Append(opened, r.session) ELSE opened
    /\ last' = [NoCall EXCEPT !.op = op, !.exc = r.exc, !.fault = r.fault, !.pre = driver,
                              !.ret = r.ret, !.errLogs = r.errLogs, !.attempts = r.attempts,
                              !.remote = r.remote]
    /\ held' = IF r.exc = NoExc THEN r.ret ELSE held
    /\ UNCHANGED <<thr, pattrs, cls, fileState, doc, configStub, inst, attrs, page, fx>>

Call_create_driver ==
    /\ cls = "WebDriverSetup"
    /\ inst = "live"
    /\ Len(opened) < MaxSessions
    /\ \E o \in WebOutcomes :
          Create("create_driver", create_driver(driver, attrs.browser, o, Len(opened) + 1))

Call_create_mobile_driver ==
    /\ cls = "MobileDriverSetup"
    /\ inst = "live"
    /\ Len(opened) < MaxSessions
    /\ \E o \in {"ok"} \cup FaultKinds :
          Create("create_mobile_driver", create_mobile_driver(driver, attrs, o, Len(opened) + 1))

Quit(r) ==
    /\ inst = "live"
    /\ driver' = r.driver
    /\ opened' = IF r.quits > 0 /\ driver # 0
                 THEN [opened EXCEPT ![driver] =
                          [@ EXCEPT !.quits = @ + r.quits, !.quitExc = r.fault.kind]]
                 ELSE opened
    /\ last' = [NoCall EXCEPT !.op = "quit_driver", !.exc = r.exc, !.fault = r.fault,
                              !.pre = driver, !.errLogs = r.errLogs, !.quits = r.quits]
    /\ UNCHANGED <<thr, pattrs, cls, fileState, doc, configStub, inst, attrs, held, page, fx>>

Call_DriverSetup_quit_driver ==
    /\ cls = "DriverSetup"
    /\ \E o \in {"ok"} \cup FaultKinds : Quit(DriverSetup_quit_driver(driver, o))

Call_WebDriverSetup_quit_driver ==
    /\ cls = "WebDriverSetup"
    /\ \E o \in {"ok"} \cup FaultKinds : Quit(WebDriverSetup_quit_driver(driver, o))

Call_MobileDriverSetup_quit_driver ==
    /\ cls = "MobileDriverSetup"
    /\ \E o \in {"ok"} \cup FaultKinds : Quit(MobileDriverSetup_quit_driver(driver, o))

\* CallReader with a reader that drops the handle.
CallReader_Resets(c, name, r) ==
    /\ cls = c
    /\ inst = "live"
    /\ driver' = 0
    /\ last' = [NoCall EXCEPT !.op = name, !.exc = r.exc, !.fault = r.fault,
                              !.errLogs = r.errLogs, !.pre = driver]
    /\ UNCHANGED <<thr, pattrs, cls, fileState, doc, configStub, inst, attrs, opened, held,
                   page, fx>>

\* A direct call of a provider's own reader on a constructed object.
CallReader(c, name, r) ==
    /\ cls = c
    /\ inst = "live"
    /\ last' = [NoCall EXCEPT !.op = name, !.exc = r.exc, !.fault = r.fault,
                              !.errLogs = r.errLogs, !.pre = driver]
    /\ UNCHANGED <<thr, pattrs, cls, fileState, doc, configStub, inst, attrs, driver, opened,
                   held, page, fx>>

Call_get_specified_browser ==
    CallReader("WebDriverSetup", "get_specified_browser", get_specified_browser(TRUE, doc))

Call_get_appium_server_url ==
    CallReader("MobileDriverSetup", "get_appium_server_url", get_appium_server_url(doc))

Call_MobileDriverSetup_get_mobile_desired_capabilities ==
    CallReader("MobileDriverSetup", "MobileDriverSetup.get_mobile_desired_capabilities",
               MobileDriverSetup_get_mobile_desired_capabilities(doc))

-----------------------------------------------------------------------------
(* Page objects.                                                            *)

\* BasePage.__init__ keeping no driver.
BasePage_init_Detached(d) == 0

\* BasePage.__init__: self.driver = driver.
BasePage_init(d) == d

\* The holder of a handle builds a page object on it.
NewBasePage ==
    /\ fx.pc \in {"off", "yielded"}
    /\ held # 0
    /\ page = 0
    /\ page' = BasePage_init(held)
    /\ pattrs' = [cls |-> "BasePage", logger |-> TRUE]
    /\ last' = [NoCall EXCEPT !.op = "BasePage", !.pre = driver]
    /\ UNCHANGED <<thr, cls, fileState, doc, configStub, inst, attrs, driver, opened, held, fx>>

-----------------------------------------------------------------------------
(* The methods of the page objects: BasePage (pages/base_page.py),          *)
(* BaseWebPage (pages/web_pages/base_web_page.py, no base class) and        *)
(* BaseMobilePage(BasePage) (pages/mobile_pages/base_mobile_page.py).  A    *)
(* method asks the driver for one lookup or gesture inside a try statement  *)
(* whose except clauses are tried in order; each is called here with        *)
(* arguments it supports, the tap type of the W3C tap being modelled in     *)
(* full.                                                                    *)

\* selenium.common.exceptions: the base class of each kind.
Parent(kind) ==
    CASE kind = "ElementNotInteractableException" -> "InvalidElementStateException"
      [] kind \in {"NoSuchElementException", "InvalidElementStateException",
                   "StaleElementReferenceException", "TimeoutException",
                   "MoveTargetOutOfBoundsException", "SessionNotCreatedException"}
            -> "WebDriverException"
      [] OTHER -> "Exception"

\* isinstance(e, type), for an exception e of the given kind.
IsA(kind, type) ==
    \/ kind = type
    \/ Parent(kind) = type
    \/ Parent(Parent(kind)) = type

\* What the driver can raise during a lookup or a gesture.
DriverFaults ==
    {"NoSuchElementException", "ElementNotInteractableException",
     "InvalidElementStateException", "StaleElementReferenceException", "TimeoutException",
     "MoveTargetOutOfBoundsException", "WebDriverException"}

\* except <type> as e: logger.error(...); raise
Reraise(type) == [type |-> type, reraise |-> TRUE]

\* except <type> as e: logger.error(...)
LogOnly(type) == [type |-> type, reraise |-> FALSE]

\* A method: its class, its name, whether it logs through self.logger (and
\* not the module's logger), whether it performs through an ActionBuilder
\* built on the page object, and its except clauses in order.
Method(c, name, selfLogger, onPage, handlers) ==
    [cls |-> c, name |-> name, selfLogger |-> selfLogger, onPage |-> onPage,
     handlers |-> handlers]

BasePage_find_element ==
    Method("BasePage", "find_element", TRUE, FALSE,
        <<Reraise("TimeoutException"), Reraise("WebDriverException")>>)

BasePage_find_elements ==
    Method("BasePage", "find_elements", TRUE, FALSE,
        <<Reraise("TimeoutException"), Reraise("WebDriverException")>>)

BaseWebPage_open_url ==
    Method("BaseWebPage", "open_url", FALSE, FALSE,
        <<Reraise("WebDriverException")>>)

BaseWebPage_find_element ==
    Method("BaseWebPage", "find_element", FALSE, FALSE,
        <<Reraise("TimeoutException"), Reraise("WebDriverException")>>)

BaseWebPage_find_elements ==
    Method("BaseWebPage", "find_elements", FALSE, FALSE,
        <<Reraise("TimeoutException"), Reraise("WebDriverException")>>)

BaseWebPage_click ==
    Method("BaseWebPage", "click", FALSE, FALSE,
        <<Reraise("TimeoutException"), Reraise("WebDriverException")>>)

BaseWebPage_send_keys ==
    Method("BaseWebPage", "send_keys", FALSE, FALSE,
        <<Reraise("TimeoutException"), Reraise("WebDriverException")>>)

BaseWebPage_get_current_url ==
    Method("BaseWebPage", "get_current_url", FALSE, FALSE,
        <<Reraise("WebDriverException")>>)

BaseWebPage_get_title ==
    Method("BaseWebPage", "get_title", FALSE, FALSE,
        <<Reraise("WebDriverException")>>)

BaseWebPage_switch_to_frame ==
    Method("BaseWebPage", "switch_to_frame", FALSE, FALSE,
        <<Reraise("TimeoutException"), Reraise("WebDriverException")>>)

BaseWebPage_perform_click_and_hold_gesture ==
    Method("BaseWebPage", "perform_click_and_hold_gesture", TRUE, FALSE,
        <<Reraise("NoSuchElementException"), Reraise("ElementNotInteractableException"),
          Reraise("InvalidElementStateException"),
          Reraise("StaleElementReferenceException"), Reraise("TimeoutException"),
          Reraise("MoveTargetOutOfBoundsException"), Reraise("WebDriverException")>>)

\* The WebDriverException clause (252-253) has no raise.
BaseWebPage_perform_double_click_gesture ==
    Method("BaseWebPage", "perform_double_click_gesture", TRUE, FALSE,
        <<Reraise("NoSuchElementException"), Reraise("ElementNotInteractableException"),
          Reraise("TimeoutException"), LogOnly("WebDriverException")>>)

\* The MoveTargetOutOfBoundsException clause (278-279) has no raise.
BaseWebPage_perform_drag_and_drop_gesture ==
    Method("BaseWebPage", "perform_drag_and_drop_gesture", TRUE, FALSE,
        <<Reraise("NoSuchElementException"), Reraise("ElementNotInteractableException"),
          LogOnly("MoveTargetOutOfBoundsException"), Reraise("TimeoutException"),
          Reraise("WebDriverException")>>)

BaseWebPage_perform_hover_over_an_element_gesture ==
    Method("BaseWebPage", "perform_hover_over_an_element_gesture", TRUE, FALSE,
        <<Reraise("NoSuchElementException"), Reraise("ElementNotInteractableException"),
          Reraise("MoveTargetOutOfBoundsException"), Reraise("TimeoutException"),
          Reraise("WebDriverException")>>)

BaseWebPage_perform_context_click_gesture ==
    Method("BaseWebPage", "perform_context_click_gesture", TRUE, FALSE,
        <<Reraise("NoSuchElementException"), Reraise("ElementNotInteractableException"),
          Reraise("MoveTargetOutOfBoundsException"), Reraise("TimeoutException"),
          Reraise("WebDriverException")>>)

BaseMobilePage_perform_tap_gesture_using_w3c_actions_api ==
    Method("BaseMobilePage", "perform_tap_gesture_using_w3c_actions_api", TRUE, FALSE,
        <<Reraise("NoSuchElementException"), Reraise("ElementNotInteractableException"),
          Reraise("InvalidElementStateException"),
          Reraise("StaleElementReferenceException"), Reraise("TimeoutException"),
          Reraise("WebDriverException")>>)

BaseMobilePage_perform_tap_gesture_using_w3c_mobile_gestures_commands ==
    Method("BaseMobilePage", "perform_tap_gesture_using_w3c_mobile_gestures_commands", TRUE, FALSE,
        <<Reraise("NoSuchElementException"), Reraise("ElementNotInteractableException"),
          Reraise("InvalidElementStateException"),
          Reraise("StaleElementReferenceException"), Reraise("TimeoutException"),
          Reraise("WebDriverException")>>)

\* The WebDriverException clause (189-191) has no raise.
BaseMobilePage_perform_drag_and_drop_gesture_using_w3c_actions_api ==
    Method("BaseMobilePage", "perform_drag_and_drop_gesture_using_w3c_actions_api", TRUE, FALSE,
        <<Reraise("NoSuchElementException"), Reraise("StaleElementReferenceException"),
          Reraise("ElementNotInteractableException"),
          Reraise("InvalidElementStateException"), Reraise("TimeoutException"),
          Reraise("MoveTargetOutOfBoundsException"), LogOnly("WebDriverException")>>)

\* The WebDriverException clause (250-252) has no raise.
BaseMobilePage_perform_drag_and_drop_using_w3c_mobile_gestures_commands ==
    Method("BaseMobilePage", "perform_drag_and_drop_using_w3c_mobile_gestures_commands", TRUE, FALSE,
        <<Reraise("NoSuchElementException"), Reraise("StaleElementReferenceException"),
          Reraise("ElementNotInteractableException"),
          Reraise("InvalidElementStateException"), Reraise("TimeoutException"),
          Reraise("MoveTargetOutOfBoundsException"), LogOnly("WebDriverException")>>)

\* ActionBuilder(self, mouse=touch_input) is given the page object, not the
\* driver: perform() looks up self.execute on the page and finds none.
BaseMobilePage_perform_long_press_gesture_using_w3c_actions_api ==
    Method("BaseMobilePage", "perform_long_press_gesture_using_w3c_actions_api", TRUE, TRUE,
        <<Reraise("NoSuchElementException"), Reraise("ElementNotInteractableException"),
          Reraise("InvalidElementStateException"),
          Reraise("MoveTargetOutOfBoundsException"), Reraise("TimeoutException"),
          Reraise("WebDriverException")>>)

BaseMobilePage_perform_long_press_gesture_using_w3c_mobile_gestures_commands ==
    Method("BaseMobilePage", "perform_long_press_gesture_using_w3c_mobile_gestures_commands", TRUE, FALSE,
        <<Reraise("NoSuchElementException"), Reraise("ElementNotInteractableException"),
          Reraise("InvalidElementStateException"),
          Reraise("MoveTargetOutOfBoundsException"), Reraise("TimeoutException"),
          Reraise("WebDriverException")>>)

BaseMobilePage_perform_scroll_gesture_using_w3c_actions_api ==
    Method("BaseMobilePage", "perform_scroll_gesture_using_w3c_actions_api", TRUE, FALSE,
        <<Reraise("NoSuchElementException"), Reraise("ElementNotInteractableException"),
          Reraise("InvalidElementStateException"),
          Reraise("MoveTargetOutOfBoundsException"), Reraise("TimeoutException"),
          Reraise("WebDriverException")>>)

BaseMobilePage_perform_scroll_gesture_using_w3c_mobile_gestures_commands ==
    Method("BaseMobilePage", "perform_scroll_gesture_using_w3c_mobile_gestures_commands", TRUE, FALSE,
        <<Reraise("NoSuchElementException"), Reraise("ElementNotInteractableException"),
          Reraise("InvalidElementStateException"),
          Reraise("MoveTargetOutOfBoundsException"), Reraise("TimeoutException"),
          Reraise("WebDriverException")>>)

BaseMobilePage_perform_swipe_gesture_using_w3c_actions_api ==
    Method("BaseMobilePage", "perform_swipe_gesture_using_w3c_actions_api", TRUE, FALSE,
        <<Reraise("NoSuchElementException"), Reraise("ElementNotInteractableException"),
          Reraise("InvalidElementStateException"),
          Reraise("MoveTargetOutOfBoundsException"), Reraise("TimeoutException"),
          Reraise("WebDriverException")>>)

BaseMobilePage_perform_swipe_up_gesture_using_w3c_mobile_gestures_commands ==
    Method("BaseMobilePage", "perform_swipe_up_gesture_using_w3c_mobile_gestures_commands", TRUE, FALSE,
        <<Reraise("NoSuchElementException"), Reraise("ElementNotInteractableException"),
          Reraise("InvalidElementStateException"),
          Reraise("MoveTargetOutOfBoundsException"), Reraise("TimeoutException"),
          Reraise("WebDriverException")>>)

BaseMobilePage_perform_flick_gesture_using_w3c_actions_api ==
    Method("BaseMobilePage", "perform_flick_gesture_using_w3c_actions_api", TRUE, FALSE,
        <<Reraise("NoSuchElementException"), Reraise("ElementNotInteractableException"),
          Reraise("InvalidElementStateException"),
          Reraise("MoveTargetOutOfBoundsException"), Reraise("TimeoutException"),
          Reraise("WebDriverException")>>)

BaseMobilePage_perform_flick_gesture_using_w3c_mobile_gestures_commands ==
    Method("BaseMobilePage", "perform_flick_gesture_using_w3c_mobile_gestures_commands", TRUE, FALSE,
        <<Reraise("NoSuchElementException"), Reraise("ElementNotInteractableException"),
          Reraise("InvalidElementStateException"),
          Reraise("MoveTargetOutOfBoundsException"), Reraise("TimeoutException"),
          Reraise("WebDriverException")>>)

BasePageMethods ==
    {BasePage_find_element, BasePage_find_elements}

BaseWebPageMethods ==
    {BaseWebPage_open_url, BaseWebPage_find_element, BaseWebPage_find_elements,
     BaseWebPage_click, BaseWebPage_send_keys, BaseWebPage_get_current_url,
     BaseWebPage_get_title, BaseWebPage_switch_to_frame,
     BaseWebPage_perform_click_and_hold_gesture, BaseWebPage_perform_double_click_gesture,
     BaseWebPage_perform_drag_and_drop_gesture,
     BaseWebPage_perform_hover_over_an_element_gesture,
     BaseWebPage_perform_context_click_gesture}

\* The methods of BaseMobilePage but the W3C tap, which has an action of its own.
BaseMobilePageMethods ==
    {BaseMobilePage_perform_tap_gesture_using_w3c_mobile_gestures_commands,
     BaseMobilePage_perform_drag_and_drop_gesture_using_w3c_actions_api,
     BaseMobilePage_perform_drag_and_drop_using_w3c_mobile_gestures_commands,
     BaseMobilePage_perform_long_press_gesture_using_w3c_actions_api,
     BaseMobilePage_perform_long_press_gesture_using_w3c_mobile_gestures_commands,
     BaseMobilePage_perform_scroll_gesture_using_w3c_actions_api,
     BaseMobilePage_perform_scroll_gesture_using_w3c_mobile_gestures_commands,
     BaseMobilePage_perform_swipe_gesture_using_w3c_actions_api,
     BaseMobilePage_perform_swipe_up_gesture_using_w3c_mobile_gestures_commands,
     BaseMobilePage_perform_flick_gesture_using_w3c_actions_api,
     BaseMobilePage_perform_flick_gesture_using_w3c_mobile_gestures_commands}

\* The methods an object of class c has: BaseMobilePage inherits BasePage's.
MethodsOf(c) ==
    CASE c = "BasePage" -> BasePageMethods
      [] c = "BaseWebPage" -> BaseWebPageMethods
      [] c = "BaseMobilePage" -> BasePageMethods \cup BaseMobilePageMethods
      [] OTHER -> {}

PageResult(e, f, logs, acts, taps, ret) ==
    [exc |-> e, fault |-> f, errLogs |-> logs, acts |-> acts, taps |-> taps, returned |-> ret]

\* The first except clause that catches an exception of the kind; 0: none.
Matching(hs, kind) ==
    LET I == {i \in 1..Len(hs) : IsA(kind, hs[i].type)}
    IN  IF I = {} THEN 0 ELSE CHOOSE i \in I : \A j \in I : i <= j

\* The try statement of m when the exception f was raised in its body after
\* `acts` driver calls: the matching clause logs it and re-raises it, or only
\* logs it and the method returns None; uncaught, it propagates unlogged.
Handle(m, f, acts, taps) ==
    LET i == Matching(m.handlers, f.kind)
    IN  IF i = 0 THEN PageResult(f, f, 0, acts, taps, FALSE)
        ELSE IF m.handlers[i].reraise THEN PageResult(f, f, 1, acts, taps, FALSE)
        ELSE PageResult(NoExc, f, 1, acts, taps, TRUE)

\* A call of m on a page object, the driver answering o ("ok" or the kind it
\* raises).  The first statement of the try body of a method that logs
\* through self.logger fails on an object without that attribute.
Invoke(m, hasLogger, o) ==
    IF m.selfLogger /\ ~hasLogger
    THEN PageResult(Exc("AttributeError", "self.logger", "none"), NoExc, 0, 0, <<>>, FALSE)
    ELSE IF m.onPage
    THEN PageResult(Exc("AttributeError", "ActionBuilder.perform", "none"), NoExc, 0, 0, <<>>,
                    FALSE)
    ELSE IF o = "ok" THEN PageResult(NoExc, NoExc, 0, 1, <<>>, TRUE)
    ELSE Handle(m, Exc(o, "driver", "none"), 1, <<>>)

\* The tap types a test passes.
TapTypes ==
    { <<"s","i","n","g","l","e">>, <<"S","i","n","g","l","e">>, <<"d","o","u","b","l","e">>,
      <<"D","O","U","B","L","E">>, <<"t","r","i","p","l","e">>, <<>> }

\* element.location
Locations == {[x |-> 0, y |-> 0], [x |-> 120, y |-> 48]}

\* The driver during a W3C tap: all calls return, or reading the location, the
\* first or the second driver.tap raises.
TapOutcomes ==
    {[point |-> "none", kind |-> "ok"]}
        \cup [point : {"location", "tap1", "tap2"}, kind : DriverFaults]

\* perform_tap_gesture_using_w3c_actions_api comparing tap_type without lower().
perform_tap_gesture_using_w3c_actions_api_CaseSensitive(loc, tapType, o) ==
    LET m == BaseMobilePage_perform_tap_gesture_using_w3c_actions_api
        n == CASE tapType = <<"s","i","n","g","l","e">> -> 1
               [] tapType = <<"d","o","u","b","l","e">> -> 2
               [] OTHER -> 0
        pos == <<loc.x, loc.y>>
        f == Exc(o.kind, o.point, "none")
    IN  IF o.point = "location" THEN Handle(m, f, 0, <<>>)
        ELSE IF n = 0
        THEN PageResult(Exc("ValueError", m.name, "none"), NoExc, 1, 0, <<>>, FALSE)
        ELSE IF o.point = "tap1" THEN Handle(m, f, 1, <<pos>>)
        ELSE IF n = 1 THEN PageResult(NoExc, NoExc, 0, 1, <<pos>>, TRUE)
        ELSE IF o.point = "tap2" THEN Handle(m, f, n, <<pos, pos>>)
        ELSE PageResult(NoExc, NoExc, 0, n, <<pos, pos>>, TRUE)

\* perform_tap_gesture_using_w3c_actions_api(element, tap_type): the location
\* is read once, then driver.tap is called once for 'single', twice for
\* 'double' (tap_type.lower()); any other type is logged and a ValueError
\* raised, which no except clause catches.
perform_tap_gesture_using_w3c_actions_api(loc, tapType, o) ==
    LET m == BaseMobilePage_perform_tap_gesture_using_w3c_actions_api
        n == CASE Lower(tapType) = <<"s","i","n","g","l","e">> -> 1
               [] Lower(tapType) = <<"d","o","u","b","l","e">> -> 2
               [] OTHER -> 0
        pos == <<loc.x, loc.y>>
        f == Exc(o.kind, o.point, "none")
    IN  IF o.point = "location" THEN Handle(m, f, 0, <<>>)
        ELSE IF n = 0
        THEN PageResult(Exc("ValueError", m.name, "none"), NoExc, 1, 0, <<>>, FALSE)
        ELSE IF o.point = "tap1" THEN Handle(m, f, 1, <<pos>>)
        ELSE IF n = 1 THEN PageResult(NoExc, NoExc, 0, 1, <<pos>>, TRUE)
        ELSE IF o.point = "tap2" THEN Handle(m, f, n, <<pos, pos>>)
        ELSE PageResult(NoExc, NoExc, 0, n, <<pos, pos>>, TRUE)

\* A call of a method of the page object.
CallPage(name, env, args, r) ==
    /\ page # 0
    /\ last' = [NoCall EXCEPT !.op = name, !.exc = r.exc, !.fault = r.fault, !.pre = driver,
                              !.errLogs = r.errLogs, !.env = env, !.acts = r.acts,
                              !.taps = r.taps, !.returned = r.returned,
                              !.args = args]
    /\ UNCHANGED <<thr, pattrs, cls, fileState, doc, configStub, inst, attrs, driver, opened, held,
                   page, fx>>

Call_page_method ==
    \E m \in MethodsOf(pattrs.cls) : \E o \in {"ok"} \cup DriverFaults :
        CallPage(m.name, o, NoArgs, Invoke(m, pattrs.logger, o))

Call_perform_tap_gesture_using_w3c_actions_api ==
    /\ pattrs.cls = "BaseMobilePage"
    /\ \E loc \in Locations : \E t \in TapTypes : \E o \in TapOutcomes :
          CallPage("perform_tap_gesture_using_w3c_actions_api", o.kind,
                   [loc |-> loc, type |-> t, point |-> o.point],
                   perform_tap_gesture_using_w3c_actions_api(loc, t, o))

\* BaseWebPage(driver): only driver and timeout are assigned.
BaseWebPage_init(d) == d

\* BaseWebPage(driver), on an object of the class as shipped (sub = FALSE) or
\* of a subclass that assigns self.logger (sub = TRUE).
NewBaseWebPage ==
    /\ fx.pc \in {"off", "yielded"}
    /\ held # 0
    /\ page = 0
    /\ \E sub \in BOOLEAN :
          pattrs' = [cls |-> "BaseWebPage", logger |-> sub]
    /\ page' = BaseWebPage_init(held)
    /\ last' = [NoCall EXCEPT !.op = "BaseWebPage", !.pre = driver]
    /\ UNCHANGED <<thr, cls, fileState, doc, configStub, inst, attrs, driver, opened, held, fx>>

\* BaseMobilePage(driver): super().__init__(driver).
NewBaseMobilePage ==
    /\ fx.pc \in {"off", "yielded"}
    /\ held # 0
    /\ page = 0
    /\ pattrs' = [cls |-> "BaseMobilePage", logger |-> TRUE]
    /\ page' = BasePage_init(held)
    /\ last' = [NoCall EXCEPT !.op = "BaseMobilePage", !.pre = driver]
    /\ UNCHANGED <<thr, cls, fileState, doc, configStub, inst, attrs, driver, opened, held, fx>>

Next ==
    \/ NewConfigParser
    \/ Call_get_web_urls
    \/ Call_get_web_browser
    \/ Call_get_mobile_appium_server
    \/ Call_get_mobile_desired_capabilities
    \/ NewDriverSetup
    \/ NewWebDriverSetup
    \/ NewMobileDriverSetup
    \/ Call_create_driver
    \/ Call_create_mobile_driver
    \/ Call_DriverSetup_quit_driver
    \/ Call_WebDriverSetup_quit_driver
    \/ Call_MobileDriverSetup_quit_driver
    \/ Call_get_specified_browser
    \/ Call_get_appium_server_url
    \/ Call_MobileDriverSetup_get_mobile_desired_capabilities
    \/ NewBasePage

Spec == Init /\ [][Next]_vars

-----------------------------------------------------------------------------
(* The providers and a page object together: every call of Next on an       *)
(* object built from a complete configuration file, and the methods of the  *)
(* BasePage built on the handle.                                            *)

FrameInit ==
    /\ Init
    /\ fileState = "ok"
    /\ doc = [shape |-> "object", WEB |-> SomeWeb, MOBILE |-> SomeMobile]

FrameNext ==
    \/ Next
    \/ Call_page_method

FrameSpec == FrameInit /\ [][FrameNext]_vars

-----------------------------------------------------------------------------
(* The session fixtures of tests/conftest.py.  A fixture is a generator:    *)
(* pytest runs it to its yield, hands the yielded handle to the tests, and  *)
(* at the end of the session resumes it with next() whether the tests       *)
(* passed or failed; a generator dropped while suspended is closed, which   *)
(* raises GeneratorExit (no Exception) at the yield.                        *)

QuitOutcomes == {"ok"} \cup FaultKinds

Resumptions == {"passed", "failed", "closed"}

\* _teardown logging the Exception of quit_driver without re-raising it.
teardown_Swallow(q) ==
    [q EXCEPT !.errLogs = @ + IF IsException(q.exc.kind) THEN 1 ELSE 0,
              !.exc = IF IsException(q.exc.kind) THEN NoExc ELSE @]

\* _teardown(driver_obj), q being what its quit_driver call did: an Exception
\* is logged once more and re-raised.
teardown(q) == [q EXCEPT !.errLogs = @ + IF IsException(q.exc.kind) THEN 1 ELSE 0]

\* The sessions once quit_driver did q on the handle h.
AskQuit(op, h, q) ==
    IF q.quits > 0 /\ h # 0
    THEN [op EXCEPT ![h] = [@ EXCEPT !.quits = @ + q.quits, !.quitExc = q.fault.kind]]
    ELSE op

QuitCall(q, pre) ==
    [NoCall EXCEPT !.op = "quit_driver", !.exc = q.exc, !.fault = q.fault, !.pre = pre,
                   !.errLogs = q.errLogs, !.quits = q.quits]

FixtureResult(i, a, h, op, f, l) ==
    [inst |-> i, attrs |-> a, driver |-> h, opened |-> op, fx |-> f, last |-> l]

\* A fixture from its first line to its yield, or to its end when setup
\* raised.  c: what the provider's constructor did (before the try); r: what
\* the create call did; q: what quit_driver does on the handle create left.
FixtureSetup(name, create, env, c, r, q) ==
    IF c.exc # NoExc
    THEN FixtureResult("none", c.attrs, 0, <<>>,
                       FxState("done", env, 0, 0, c.errLogs, c.exc, ""),
                       [NoCall EXCEPT !.op = name, !.exc = c.exc, !.errLogs = c.errLogs])
    ELSE LET sessions == IF r.new THEN <<r.session>> ELSE <<>>
         IN  IF r.exc = NoExc
             THEN FixtureResult("live", c.attrs, r.driver, sessions,
                                FxState("yielded", env, r.ret, 0, 0, NoExc, ""),
                                [NoCall EXCEPT !.op = create, !.ret = r.ret,
                                               !.attempts = r.attempts, !.remote = r.remote])
             ELSE LET t == teardown(q)
                      logs == r.errLogs + (IF IsException(r.exc.kind) THEN 1 ELSE 0) + t.errLogs
                  IN  FixtureResult("live", c.attrs, t.driver, AskQuit(sessions, r.driver, t),
                                    [FxState("done", env, 0, 1, logs,
                                             IF t.exc # NoExc THEN t.exc ELSE r.exc, "")
                                       EXCEPT !.first = r.exc],
                                    QuitCall(t, r.driver))

\* setup_teardown_webdriver up to its yield; o: how the browser collaborators answer.
setup_teardown_webdriver_setup(stub, fs, d, o) ==
    LET c == WebDriverSetup_init(stub, fs, d)
        r == create_driver(0, c.attrs.browser, o, 1)
    IN  FixtureSetup("WebDriverSetup", "create_driver", o.kind, c, r,
                     WebDriverSetup_quit_driver(r.driver, "ok"))

\* setup_teardown_mobile_webdriver up to its yield; o: how webdriver.Remote answers.
setup_teardown_mobile_webdriver_setup(fs, d, o) ==
    LET c == MobileDriverSetup_init(fs, d)
        r == create_mobile_driver(0, c.attrs, o, 1)
    IN  FixtureSetup("MobileDriverSetup", "create_mobile_driver", o, c, r,
                     MobileDriverSetup_quit_driver(r.driver, "ok"))

ResumeResult(h, op, calls, logs, e, l) ==
    [driver |-> h, opened |-> op, quitCalls |-> calls, errLogs |-> logs, exc |-> e, last |-> l,
     first |-> e]

\* setup_teardown_webdriver from its yield on.  Resumed by next(): _teardown
\* in the try block, its Exception logged by the except clause, then _teardown
\* again in the finally clause.  Closed: the finally clause only.
setup_teardown_webdriver_resume(h, op, how, o1, o2) ==
    IF how = "closed"
    THEN LET t == teardown(WebDriverSetup_quit_driver(h, o1))
         IN  ResumeResult(t.driver, AskQuit(op, h, t), 1, t.errLogs, t.exc, QuitCall(t, h))
    ELSE LET t1 == teardown(WebDriverSetup_quit_driver(h, o1))
             caught == IF IsException(t1.exc.kind) THEN 1 ELSE 0
             t2 == teardown(WebDriverSetup_quit_driver(t1.driver, o2))
         IN  [ResumeResult(t2.driver, AskQuit(AskQuit(op, h, t1), t1.driver, t2), 2,
                           t1.errLogs + caught + t2.errLogs,
                           IF t2.exc # NoExc THEN t2.exc ELSE t1.exc, QuitCall(t2, t1.driver))
                EXCEPT !.first = IF t1.exc # NoExc THEN t1.exc ELSE t2.exc]

\* setup_teardown_mobile_webdriver with _teardown as the last statement of the
\* try block instead of a finally clause: a closed generator skips it.
setup_teardown_mobile_webdriver_resume_NoFinally(h, op, how, o1) ==
    IF how = "closed"
    THEN ResumeResult(h, op, 0, 0, NoExc, NoCall)
    ELSE LET t == teardown(MobileDriverSetup_quit_driver(h, o1))
         IN  ResumeResult(t.driver, AskQuit(op, h, t), 1,
                          t.errLogs + (IF IsException(t.exc.kind) THEN 1 ELSE 0), t.exc,
                          QuitCall(t, h))

\* setup_teardown_mobile_webdriver from its yield on: nothing follows the
\* yield in the try block, so next() and close() both run the finally clause.
setup_teardown_mobile_webdriver_resume(h, op, how, o1) ==
    LET t == teardown(MobileDriverSetup_quit_driver(h, o1))
    IN  ResumeResult(t.driver, AskQuit(op, h, t), 1, t.errLogs, t.exc, QuitCall(t, h))

\* pytest starts the fixture.
Start(res) ==
    /\ fx.pc = "idle"
    /\ inst' = res.inst
    /\ attrs' = res.attrs
    /\ driver' = res.driver
    /\ opened' = res.opened
    /\ held' = res.fx.yielded
    /\ fx' = res.fx
    /\ last' = res.last
    /\ UNCHANGED <<thr, pattrs, cls, fileState, doc, configStub, page>>

Start_setup_teardown_webdriver ==
    /\ cls = "WebDriverSetup"
    /\ \E o \in WebOutcomes : Start(setup_teardown_webdriver_setup(configStub, fileState, doc, o))

Start_setup_teardown_mobile_webdriver ==
    /\ cls = "MobileDriverSetup"
    /\ \E o \in QuitOutcomes : Start(setup_teardown_mobile_webdriver_setup(fileState, doc, o))

\* pytest finishes the suspended fixture.
Finish(res, how) ==
    /\ fx.pc = "yielded"
    /\ driver' = res.driver
    /\ opened' = res.opened
    /\ fx' = [fx EXCEPT !.pc = "done", !.quitCalls = @ + res.quitCalls,
                        !.errLogs = @ + res.errLogs, !.exc = res.exc, !.how = how,
                        !.first = res.first]
    /\ last' = res.last
    /\ UNCHANGED <<thr, pattrs, cls, fileState, doc, configStub, inst, attrs, held, page>>

Finish_setup_teardown_webdriver ==
    /\ cls = "WebDriverSetup"
    /\ \E how \in Resumptions : \E o1, o2 \in QuitOutcomes :
          Finish(setup_teardown_webdriver_resume(driver, opened, how, o1, o2), how)

Finish_setup_teardown_mobile_webdriver ==
    /\ cls = "MobileDriverSetup"
    /\ \E how \in Resumptions : \E o1 \in QuitOutcomes :
          Finish(setup_teardown_mobile_webdriver_resume(driver, opened, how, o1), how)

FixtureInit ==
    /\ cls \in {"WebDriverSetup", "MobileDriverSetup"}
    /\ fileState \in FileStates
    /\ doc \in DocsOf(cls)
    /\ fileState # "ok" => doc = ArrayDoc
    /\ configStub \in BOOLEAN
    /\ configStub => cls = "WebDriverSetup"
    /\ inst = "none"
    /\ attrs = NoAttrs
    /\ driver = 0
    /\ opened = <<>>
    /\ last = NoCall
    /\ held = 0
    /\ page = 0
    /\ fx = FxState("idle", "", 0, 0, 0, NoExc, "")
    /\ pattrs = NoPage
    /\ thr = NoCallers

FixtureNext ==
    \/ Start_setup_teardown_webdriver
    \/ Start_setup_teardown_mobile_webdriver
    \/ NewBasePage
    \/ Finish_setup_teardown_webdriver
    \/ Finish_setup_teardown_mobile_webdriver

FixtureSpec == FixtureInit /\ [][FixtureNext]_vars

-----------------------------------------------------------------------------
(* Page objects in use: a test holds the handle of a session that           *)
(* MobileDriverSetup().create_mobile_driver() opened from a complete        *)
(* configuration, builds one page object on it and calls its methods.       *)

PageDoc == [shape |-> "object", WEB |-> SomeWeb, MOBILE |-> SomeMobile]

PageInit ==
    LET c == MobileDriverSetup_init("ok", PageDoc)
        r == create_mobile_driver(0, c.attrs, "ok", 1)
    IN  /\ cls = "MobileDriverSetup"
        /\ fileState = "ok"
        /\ doc = PageDoc
        /\ configStub = FALSE
        /\ inst = "live"
        /\ attrs = c.attrs
        /\ driver = r.driver
        /\ opened = <<r.session>>
        /\ last = NoCall
        /\ held = r.ret
        /\ page = 0
        /\ fx = NoFixture
        /\ pattrs = NoPage
        /\ thr = NoCallers

PageNext ==
    \/ NewBasePage
    \/ NewBaseWebPage
    \/ NewBaseMobilePage
    \/ Call_page_method
    \/ Call_perform_tap_gesture_using_w3c_actions_api

PageSpec == PageInit /\ [][PageNext]_vars

-----------------------------------------------------------------------------
(* quit_driver step by step.  Several callers share one MobileDriverSetup   *)
(* object that holds a live handle; each runs quit_driver (mobile_driver_   *)
(* setup.py:78-87, the same statements as DriverSetup.quit_driver and       *)
(* WebDriverSetup.quit_driver), and the interpreter may switch callers      *)
(* between any two of: the test of self.driver, the load of self.driver for *)
(* the call, the call of quit() (a request to the server), and the          *)
(* assignment in the finally clause.  Nothing in the class takes a lock.    *)

\* if self.driver is not None: enter the try statement, else return.
quit_driver_check(t) ==
    /\ thr[t].pc = "idle"
    /\ thr[t].calls < MaxCalls
    /\ thr' = [thr EXCEPT ![t] =
                  IF driver # 0
                  THEN [@ EXCEPT !.pc = "try", !.ref = 0, !.exc = NoExc, !.errLogs = 0]
                  ELSE [@ EXCEPT !.ref = 0, !.exc = NoExc, !.errLogs = 0, !.calls = @ + 1]]
    /\ UNCHANGED <<pattrs, cls, fileState, doc, configStub, inst, attrs, driver, opened, last,
                   held, page, fx>>

\* self.driver.quit(): the attribute is read.
quit_driver_load(t) ==
    /\ thr[t].pc = "try"
    /\ thr' = [thr EXCEPT ![t] = [@ EXCEPT !.pc = "call", !.ref = driver]]
    /\ UNCHANGED <<pattrs, cls, fileState, doc, configStub, inst, attrs, driver, opened, last,
                   held, page, fx>>

\* self.driver.quit(): quit is looked up on what was read (None has no quit:
\* AttributeError, which the except clause does not catch) and the session
\* is asked to quit; a WebDriverException is logged and re-raised.
quit_driver_call(t) ==
    /\ thr[t].pc = "call"
    /\ IF thr[t].ref = 0
       THEN /\ thr' = [thr EXCEPT ![t] =
                          [@ EXCEPT !.pc = "finally",
                                    !.exc = Exc("AttributeError", "self.driver.quit", "none")]]
            /\ UNCHANGED opened
       ELSE \E o \in {"ok"} \cup FaultKinds :
               /\ opened' = [opened EXCEPT ![thr[t].ref] =
                                [@ EXCEPT !.quits = @ + 1,
                                          !.quitExc = IF o = "ok" THEN "none" ELSE o]]
               /\ thr' = [thr EXCEPT ![t] =
                             [@ EXCEPT !.pc = "finally",
                                       !.exc = IF o = "ok" THEN NoExc
                                               ELSE Exc(o, "driver.quit", "none"),
                                       !.errLogs = IF IsWebDriverException(o) THEN 1 ELSE 0]]
    /\ UNCHANGED <<pattrs, cls, fileState, doc, configStub, inst, attrs, driver, last, held,
                   page, fx>>

\* quit_driver_finally leaving self.driver as it is.
quit_driver_finally_KeepsHandle(t) ==
    /\ thr[t].pc = "finally"
    /\ driver' = driver
    /\ thr' = [thr EXCEPT ![t] = [@ EXCEPT !.pc = "idle", !.calls = @ + 1]]
    /\ last' = [NoCall EXCEPT !.op = "quit_driver", !.exc = thr[t].exc, !.pre = driver,
                              !.errLogs = thr[t].errLogs]
    /\ UNCHANGED <<pattrs, cls, fileState, doc, configStub, inst, attrs, opened, held, page, fx>>

\* finally: self.driver = None; the call returns or raises what was raised.
quit_driver_finally(t) ==
    /\ thr[t].pc = "finally"
    /\ driver' = 0
    /\ thr' = [thr EXCEPT ![t] = [@ EXCEPT !.pc = "idle", !.calls = @ + 1]]
    /\ last' = [NoCall EXCEPT !.op = "quit_driver", !.exc = thr[t].exc, !.pre = driver,
                              !.errLogs = thr[t].errLogs]
    /\ UNCHANGED <<pattrs, cls, fileState, doc, configStub, inst, attrs, opened, held, page, fx>>

Step_check == \E t \in Callers : quit_driver_check(t)

Step_load == \E t \in Callers : quit_driver_load(t)

Step_call == \E t \in Callers : quit_driver_call(t)

Step_finally == \E t \in Callers : quit_driver_finally(t)

RaceInit == PageInit

RaceNext ==
    \/ Step_check
    \/ Step_load
    \/ Step_call
    \/ Step_finally

RaceSpec == RaceInit /\ [][RaceNext]_vars

-----------------------------------------------------------------------------
(* Properties.                                                              *)

Creates == {"create_driver", "create_mobile_driver"}

\* The sessions the object opened on which quit() was never called.
LiveSessions == {i \in 1..Len(opened) : opened[i].quits = 0}

\* C1: whenever a quit_driver call has ended, normally or by raising (a
\* WebDriverException or any other error), or found the handle already None,
\* self.driver is None, in each of the three classes.
C1_QuitLeavesHandleNull == last.op = "quit_driver" => driver = 0

\* A quit_driver whose driver.quit() raised an error that is no
\* WebDriverException, on a handle that was set.
C1_Witness ==
    /\ last.op = "quit_driver"
    /\ last.pre # 0
    /\ last.exc.kind = "RuntimeError"
    /\ driver = 0

\* C2: quit_driver on an object on which no create ever succeeded raises
\* nothing, calls no external driver collaborator and leaves the handle None.
C2_QuitBeforeCreateIsNoOp ==
    (last.op = "quit_driver" /\ opened = <<>>) =>
        /\ last.exc = NoExc
        /\ last.quits = 0
        /\ last.attempts = 0
        /\ last.pre = 0
        /\ driver = 0

\* quit_driver has returned on a DriverSetup that never opened a session.
C2_Witness ==
    /\ cls = "DriverSetup"
    /\ last.op = "quit_driver"
    /\ opened = <<>>
    /\ last.exc = NoExc

\* C3: driver.quit() is called at most once on every session the object
\* opened, and a quit_driver call that finds the handle already released is a
\* no-op that raises nothing, also when the releasing call had failed.
C3_QuitIdempotent ==
    /\ \A i \in 1..Len(opened) : opened[i].quits <= 1
    /\ (last.op = "quit_driver" /\ opened # <<>> /\ last.pre = 0) =>
          (last.exc = NoExc /\ last.quits = 0 /\ driver = 0)

\* A second quit_driver after a first one whose driver.quit() raised.
C3_Witness ==
    /\ last.op = "quit_driver"
    /\ last.pre = 0
    /\ Len(opened) = 1
    /\ opened[1].quits = 1
    /\ opened[1].quitExc = "WebDriverException"
    /\ last.exc = NoExc

\* C4: after a create that succeeded the handle is set, is the session just
\* opened (not yet asked to quit) and is the value returned to the caller;
\* after the quit_driver that follows, the handle is None.
C4_CreateQuitRoundTrip ==
    /\ (last.op \in Creates /\ last.exc = NoExc) =>
          /\ driver # 0
          /\ driver = last.ret
          /\ driver = Len(opened)
          /\ opened[driver].quits = 0
    /\ (last.op = "quit_driver" /\ last.pre # 0) =>
          (driver = 0 /\ opened[last.pre].quits = 1)

\* The quit_driver after the first successful create has returned.
C4_Witness ==
    /\ last.op = "quit_driver"
    /\ last.pre = 1
    /\ last.exc = NoExc
    /\ opened[1].quits = 1
    /\ driver = 0

\* C5: the sessions the object opened and has not asked to quit number 0 or 1
\* after any sequence of create and quit_driver calls.
C5_AtMostOneLiveSession == Cardinality(LiveSessions) <= 1

\* C6: constructing a WebDriverSetup over a configuration whose browser is
\* chrome, firefox or edge in any letter case succeeds with self.browser the
\* lower-cased name; every other browser string ends in ValueError.
C6_BrowserResolution ==
    (/\ last.op = "WebDriverSetup"
     /\ fileState = "ok"
     /\ doc.shape = "object"
     /\ doc.WEB.shape = "object"
     /\ doc.WEB.browser.t = "str") =>
        IF Lower(doc.WEB.browser.s) \in SupportedBrowsers
        THEN last.exc = NoExc /\ inst = "live" /\ attrs.browser = Lower(doc.WEB.browser.s)
        ELSE last.exc.kind = "ValueError" /\ inst = "none"

Accessors ==
    {"get_web_urls", "get_web_browser", "get_mobile_appium_server",
     "get_mobile_desired_capabilities"}

SectionOf(a) == IF a \in {"get_web_urls", "get_web_browser"} THEN "WEB" ELSE "MOBILE"

KeyOf(a) ==
    CASE a = "get_web_urls" -> "urls"
      [] a = "get_web_browser" -> "browser"
      [] a = "get_mobile_appium_server" -> "appium_server"
      [] a = "get_mobile_desired_capabilities" -> "desired_capabilities"

\* The document is an object that lacks the section, or the section is an
\* object that lacks the key.
KeyMissing(d, sec, key) ==
    /\ d.shape = "object"
    /\ \/ d[sec].shape = "absent"
       \/ d[sec].shape = "object" /\ d[sec][key].t = "absent"

\* C7: an accessor called on a document that lacks its section or its key
\* raises KeyError, and returns no value at all.
C7_MissingKeyRaisesKeyError ==
    (last.op \in Accessors /\ KeyMissing(doc, SectionOf(last.op), KeyOf(last.op))) =>
        (last.exc.kind = "KeyError" /\ last.val = NoVal)

\* get_web_browser has been called on a document whose WEB section has no
\* browser key.
C7_Witness ==
    /\ last.op = "get_web_browser"
    /\ doc.WEB.shape = "object"
    /\ doc.WEB.browser.t = "absent"
    /\ last.exc.kind = "KeyError"

\* C8 as stated: ConfigParser() on a missing, an unreadable or an invalid
\* file fails with FileNotFoundError, and no object results.
C8_AllLoadFailuresAreFileNotFound ==
    (last.op = "ConfigParser" /\ fileState # "ok") =>
        (last.exc.kind = "FileNotFoundError" /\ inst = "none")

\* C8 (amended): ConfigParser() fails with FileNotFoundError on a missing
\* file, with PermissionError on an unreadable one and with JSONDecodeError on
\* invalid JSON; in each of the three cases no object results.
C8_LoadFailureKinds ==
    (last.op = "ConfigParser" /\ fileState # "ok") =>
        /\ inst = "none"
        /\ fileState = "missing" => last.exc.kind = "FileNotFoundError"
        /\ fileState = "unreadable" => last.exc.kind = "PermissionError"
        /\ fileState = "invalid_json" => last.exc.kind = "JSONDecodeError"

\* ConfigParser() has failed on a file that holds no valid JSON.
C8_Witness ==
    /\ last.op = "ConfigParser"
    /\ fileState = "invalid_json"
    /\ last.exc.kind = "JSONDecodeError"
    /\ inst = "none"

\* C9: every call of webdriver.Remote made by create_mobile_driver, and so
\* every session opened, has the URL of MOBILE.appium_server and an options
\* object loaded with the MOBILE.desired_capabilities mapping.
C9_RemoteGetsConfiguredUrlAndCaps ==
    /\ (last.op = "create_mobile_driver" /\ last.remote.called) =>
          /\ last.remote.url = doc.MOBILE.appium_server.s
          /\ last.remote.options.cls = "UiAutomator2Options"
          /\ last.remote.options.caps = doc.MOBILE.desired_capabilities.m
    /\ cls = "MobileDriverSetup" =>
          \A i \in 1..Len(opened) :
              /\ opened[i].url = doc.MOBILE.appium_server.s
              /\ opened[i].options.caps = doc.MOBILE.desired_capabilities.m

\* Remote has been called for a configuration naming the second server and the
\* two-key capability mapping.
C9_Witness ==
    /\ last.op = "create_mobile_driver"
    /\ last.remote.called
    /\ last.remote.url = "http://10.0.0.5:4723/wd/hub"
    /\ last.remote.options.caps = [platformName |-> "Android", deviceName |-> "emulator-5554"]
    /\ last.exc = NoExc

\* C10 as stated: when Remote raises SessionNotCreatedException inside
\* create_mobile_driver, that exception reaches the caller and the handle is
\* None afterward.
C10_FaultLeavesHandleNull ==
    (last.op = "create_mobile_driver" /\ last.fault.kind = "SessionNotCreatedException") =>
        (last.exc = last.fault /\ driver = 0)

\* C10 (amended): when Remote raises SessionNotCreatedException inside
\* create_mobile_driver, that exception reaches the caller and the handle is
\* what it was before the call: None when it was None, the earlier session
\* when an earlier create had succeeded and quit_driver was not called since.
C10_FaultPropagatesHandleUnchanged ==
    (last.op = "create_mobile_driver" /\ last.fault.kind = "SessionNotCreatedException") =>
        /\ last.exc = last.fault
        /\ last.exc.kind = "SessionNotCreatedException"
        /\ last.ret = 0
        /\ driver = last.pre
        /\ last.pre = 0 => driver = 0

\* A create_mobile_driver failed with SessionNotCreatedException on an object
\* that still held the session of an earlier create.
C10_Witness ==
    /\ last.op = "create_mobile_driver"
    /\ last.fault.kind = "SessionNotCreatedException"
    /\ last.exc.kind = "SessionNotCreatedException"
    /\ last.pre = 1
    /\ driver = 1
    /\ opened[1].quits = 0

C12_NoRetry ==
    last.op \in Creates =>
        /\ last.attempts <= 1
        /\ last.fault # NoExc => (last.exc # NoExc /\ last.ret = 0)

\* A create_driver whose browser constructor raised made one attempt.
C12_Witness ==
    /\ last.op = "create_driver"
    /\ last.fault.kind = "SessionNotCreatedException"
    /\ last.fault.site = "construct"
    /\ last.attempts = 1
    /\ last.exc # NoExc

Readers == {"get_appium_server_url", "MobileDriverSetup.get_mobile_desired_capabilities"}

\* C13: what a collaborator raised inside create_driver, create_mobile_driver,
\* quit_driver or a MobileDriverSetup reader is what the caller receives.
C13_ErrorsPropagateUnchanged ==
    (last.op \in Creates \cup Readers \cup {"quit_driver"} /\ last.fault # NoExc) =>
        (last.exc # NoExc /\ last.exc.kind = last.fault.kind /\ last.exc = last.fault)

\* A create_driver whose driver manager raised an error that is no
\* WebDriverException.
C13_Witness ==
    /\ last.op = "create_driver"
    /\ last.fault.kind = "RuntimeError"
    /\ last.fault.site = "install"
    /\ last.exc = last.fault

\* C14 as stated: every call that ends with an error has written at least one
\* error-level log record.
C14_EveryFailureLogged == last.exc # NoExc => last.errLogs >= 1

\* Where ConfigParser.__init__ fails.
LoadSites == {"ConfigParser.__init__", "open", "json.load"}

\* C14 (amended): an error-level record is written before the error leaves
\* get_specified_browser or a MobileDriverSetup reader, before an Exception
\* leaves a create call, and before a WebDriverException leaves quit_driver;
\* a constructor logs the failures of these readers, not those of loading.
C14_LoggedFailures ==
    /\ (last.op \in Readers \cup {"get_specified_browser"} /\ IsException(last.exc.kind)) =>
          last.errLogs >= 1
    /\ (/\ last.op \in {"WebDriverSetup", "MobileDriverSetup"}
        /\ IsException(last.exc.kind)
        /\ last.exc.site \notin LoadSites) => last.errLogs >= 1
    /\ (last.op \in Creates /\ IsException(last.exc.kind)) => last.errLogs >= 1
    /\ (last.op = "quit_driver" /\ IsWebDriverException(last.exc.kind)) => last.errLogs >= 1

\* MobileDriverSetup() failed on a missing appium_server key, with one record.
C14_Witness ==
    /\ last.op = "MobileDriverSetup"
    /\ last.exc.kind = "KeyError"
    /\ last.errLogs = 1

\* C15 as stated: when driver.quit() fails, quit_driver logs the failure and
\* raises an error that is, or carries as its cause, what driver.quit() raised.
C15_TeardownFailureLoggedAndRaised ==
    (last.op = "quit_driver" /\ last.fault # NoExc) =>
        /\ last.errLogs >= 1
        /\ last.exc # NoExc
        /\ last.exc = last.fault \/ last.exc.ctx = last.fault.kind

\* C15 (amended): when driver.quit() fails, quit_driver raises to the caller
\* the very exception driver.quit() raised, with no teardown error wrapped
\* around it, and logs it exactly when it is a WebDriverException.
C15_TeardownFailureReraised ==
    (last.op = "quit_driver" /\ last.fault # NoExc) =>
        /\ last.exc = last.fault
        /\ last.errLogs = IF IsWebDriverException(last.fault.kind) THEN 1 ELSE 0

\* A quit_driver whose driver.quit() raised a WebDriverException.
C15_Witness ==
    /\ last.op = "quit_driver"
    /\ last.fault.kind = "WebDriverException"
    /\ last.exc = last.fault
    /\ last.errLogs = 1

\* The webdriver class named after the configured browser.
KindFor(name) ==
    CASE Lower(name) = <<"c","h","r","o","m","e">> -> "Chrome"
      [] Lower(name) = <<"e","d","g","e">> -> "Edge"
      [] Lower(name) = <<"f","i","r","e","f","o","x">> -> "Firefox"
      [] OTHER -> "none"

\* C18: a create_driver that succeeded constructed one session, of the class
\* of the configured browser, stored it and returned it; the object never
\* holds a session of another class.
C18_DispatchOnBrowser ==
    /\ (last.op = "create_driver" /\ last.exc = NoExc) =>
          /\ last.attempts = 1
          /\ driver = Len(opened)
          /\ last.ret = driver
          /\ opened[driver].kind = KindFor(doc.WEB.browser.s)
    /\ cls = "WebDriverSetup" =>
          \A i \in 1..Len(opened) : opened[i].kind = KindFor(doc.WEB.browser.s)

\* create_driver succeeded for the configured browser "EDGE".
C18_Witness ==
    /\ last.op = "create_driver"
    /\ last.exc = NoExc
    /\ doc.WEB.browser.s = <<"E","D","G","E">>
    /\ opened[driver].kind = "Edge"

\* C17 as stated: once quit_driver has released a session, neither the caller
\* that got the handle from create nor a page object built on it still refers
\* to that session.
C17_NoReferenceOutlivesQuit ==
    (last.op = "quit_driver" /\ last.quits > 0) => (held # last.pre /\ page # last.pre)

\* C17 (amended): quit_driver clears the provider's own reference only; the
\* handle create returned to its caller still names the released session, and
\* a page object keeps the very handle it was built on.
C17_OnlyProviderReferenceCleared ==
    /\ (last.op = "quit_driver" /\ last.quits > 0) =>
          /\ driver = 0
          /\ held = last.pre
          /\ opened[held].quits >= 1
    /\ last.op = "BasePage" => (page # 0 /\ page = held)
    /\ page # 0 => page \in 1..Len(opened)

\* quit_driver released the session that the caller and a page object hold.
C17_Witness ==
    /\ last.op = "quit_driver"
    /\ last.exc = NoExc
    /\ driver = 0
    /\ held = 1
    /\ page = 1
    /\ opened[1].quits = 1

\* C16: when a session fixture has ended, however it ended, it has called
\* quit_driver on its provider exactly once.
C16_FixtureQuitsExactlyOnce == fx.pc = "done" => fx.quitCalls = 1

\* The configuration file is a JSON object naming a supported browser.
SupportedBrowserConfigured ==
    /\ fileState = "ok"
    /\ doc.shape = "object"
    /\ doc.WEB.shape = "object"
    /\ doc.WEB.browser.t = "str"
    /\ Lower(doc.WEB.browser.s) \in SupportedBrowsers

\* C19: once setup_teardown_webdriver has run with a configuration file that
\* names a supported browser and collaborators that start the session without
\* error, it has yielded a WebDriver to the test.
C19_WebFixtureYields ==
    (/\ cls = "WebDriverSetup"
     /\ fx.pc \in {"yielded", "done"}
     /\ SupportedBrowserConfigured
     /\ fx.env = "ok") => fx.yielded # 0

\* C20: when a fixture that yielded a handle has finished (after a passed or
\* failed test run, or closed), driver.quit() was called on that handle and
\* the provider's handle is None.
C20_YieldedSessionAskedToQuit ==
    (fx.pc = "done" /\ fx.yielded # 0) =>
        /\ opened[fx.yielded].quits >= 1
        /\ driver = 0

\* The mobile fixture was closed while suspended at its yield.
C20_Witness ==
    /\ cls = "MobileDriverSetup"
    /\ fx.pc = "done"
    /\ fx.how = "closed"
    /\ fx.yielded = 1
    /\ opened[1].quits = 1
    /\ driver = 0

\* C21: when driver.quit() raised inside a fixture's teardown, that error is
\* what the fixture ends with, logged when it is an Exception; and when an
\* error was raised in the fixture before its last teardown, that first error
\* is the one the fixture ends with.
C21_TeardownFailureSurfacedNotMasking ==
    /\ (fx.pc = "done" /\ fx.yielded # 0 /\ opened[fx.yielded].quitExc # "none") =>
          /\ fx.exc = Exc(opened[fx.yielded].quitExc, "driver.quit", "none")
          /\ IsException(fx.exc.kind) => fx.errLogs >= 1
    /\ (fx.pc = "done" /\ fx.first # NoExc) => fx.exc = fx.first

\* The web fixture ended with the WebDriverException of its first teardown
\* although a second teardown followed in the finally clause.
C21_Witness ==
    /\ cls = "WebDriverSetup"
    /\ fx.pc = "done"
    /\ fx.how = "passed"
    /\ fx.quitCalls = 2
    /\ opened[fx.yielded].quitExc = "WebDriverException"
    /\ fx.exc.kind = "WebDriverException"
    /\ fx.errLogs >= 1

\* C22: when the provider was constructed and create raised inside a fixture,
\* the fixture's teardown called quit_driver once on a null handle, which did
\* nothing; the fixture ends with the creation error and no driver.quit() call.
C22_FailedCreateTeardownIsNoOp ==
    (fx.pc = "done" /\ inst = "live" /\ fx.yielded = 0) =>
        /\ fx.quitCalls = 1
        /\ last.op = "quit_driver"
        /\ last.pre = 0
        /\ last.quits = 0
        /\ last.exc = NoExc
        /\ driver = 0
        /\ opened = <<>>
        /\ fx.first # NoExc
        /\ fx.exc = fx.first

\* The mobile fixture ended with the SessionNotCreatedException of Remote.
C22_Witness ==
    /\ cls = "MobileDriverSetup"
    /\ fx.pc = "done"
    /\ inst = "live"
    /\ fx.yielded = 0
    /\ fx.quitCalls = 1
    /\ fx.exc = Exc("SessionNotCreatedException", "webdriver.Remote", "none")

\* C24: a web fixture resumed by next() has called quit_driver twice and
\* driver.quit() once on the session it yielded; the second quit_driver call
\* met a null handle and did nothing, whatever the first did.
C24_TwoTeardownsOneQuit ==
    (cls = "WebDriverSetup" /\ fx.pc = "done" /\ fx.how \in {"passed", "failed"}) =>
        /\ fx.quitCalls = 2
        /\ opened[fx.yielded].quits = 1
        /\ last.op = "quit_driver"
        /\ last.pre = 0
        /\ last.quits = 0
        /\ last.exc = NoExc
        /\ driver = 0

\* The first teardown of a resumed web fixture raised, the second did nothing.
C24_Witness ==
    /\ cls = "WebDriverSetup"
    /\ fx.pc = "done"
    /\ fx.how = "failed"
    /\ fx.quitCalls = 2
    /\ fx.exc.kind = "RuntimeError"
    /\ opened[fx.yielded].quits = 1
    /\ last.quits = 0

\* The configuration file is missing, or it is a JSON object without MOBILE
\* or whose MOBILE object lacks one of the two keys.
MobileUnresolved ==
    \/ fileState = "missing"
    \/ /\ fileState = "ok"
       /\ doc.shape = "object"
       /\ doc.MOBILE.shape \in {"object", "absent"}
       /\ \/ doc.MOBILE.appium_server.t = "absent"
          \/ doc.MOBILE.desired_capabilities.t = "absent"

\* C25: with the configuration file missing or one of the two MOBILE keys
\* absent, MobileDriverSetup() raises the ConfigParser error, no instance ever
\* exists and no remote session is ever requested.
C25_EagerResolutionFailsFast ==
    (cls = "MobileDriverSetup" /\ MobileUnresolved) =>
        /\ inst = "none"
        /\ driver = 0
        /\ opened = <<>>
        /\ ~last.remote.called
        /\ last.op \in {"none", "MobileDriverSetup"}
        /\ last.op = "MobileDriverSetup" =>
              last.exc.kind = IF fileState = "missing" THEN "FileNotFoundError" ELSE "KeyError"

\* MobileDriverSetup() failed on a MOBILE section that gives the server URL
\* and no capabilities.
C25_Witness ==
    /\ last.op = "MobileDriverSetup"
    /\ last.exc.kind = "KeyError"
    /\ doc.MOBILE.appium_server.t = "str"
    /\ doc.MOBILE.desired_capabilities.t = "absent"
    /\ inst = "none"

\* The method of the page object that the last call ran.
TapMethod == BaseMobilePage_perform_tap_gesture_using_w3c_actions_api

Called(m) ==
    /\ page # 0
    /\ last.op = m.name
    /\ \/ m \in MethodsOf(pattrs.cls)
       \/ m = TapMethod /\ pattrs.cls = "BaseMobilePage"

\* The kinds the docstring of m lists under :raises among the WebDriver
\* errors: one for each except clause of m.
Documented(m) == {m.handlers[i].type : i \in 1..Len(m.handlers)}

PageMethods == BasePageMethods \cup BaseWebPageMethods \cup BaseMobilePageMethods \cup {TapMethod}

\* C27: for every method of BasePage, BaseWebPage and BaseMobilePage and every
\* kind its docstring lists under :raises, an error of that kind raised by
\* the driver is logged and then reaches the caller; the method does not
\* return normally.
C27_DocumentedErrorsLoggedAndReraised ==
    \A m \in PageMethods :
        (Called(m) /\ last.fault # NoExc /\ last.fault.kind \in Documented(m)) =>
            /\ last.exc = last.fault
            /\ last.errLogs >= 1
            /\ ~last.returned

\* The gesture methods of BaseWebPage.
WebGestures ==
    {BaseWebPage_perform_click_and_hold_gesture, BaseWebPage_perform_double_click_gesture,
     BaseWebPage_perform_drag_and_drop_gesture, BaseWebPage_perform_hover_over_an_element_gesture,
     BaseWebPage_perform_context_click_gesture}

\* C28: a gesture method of a BaseWebPage, called with a driver that answers,
\* performs the gesture through the driver and returns without raising.
C28_WebGesturesPerform ==
    \A m \in WebGestures :
        (Called(m) /\ pattrs.cls = "BaseWebPage" /\ last.env = "ok") =>
            /\ last.exc = NoExc
            /\ last.returned
            /\ last.acts = 1

\* The position of the element of the last tap call.
TapPos == <<last.args.loc.x, last.args.loc.y>>

\* C29: perform_tap_gesture_using_w3c_actions_api, with a driver that answers
\* every call, sends one tap for 'single' and two for 'double' in any case of
\* letters, at the location of the element, and returns; for any other type
\* it raises ValueError.  Whatever the driver does, every tap sent is at the
\* location, never more are sent than the type asks for, and none for
\* another type.
C29_TapCountFollowsType ==
    (Called(TapMethod) /\ last.op = TapMethod.name) =>
        LET t == Lower(last.args.type)
            n == CASE t = <<"s","i","n","g","l","e">> -> 1
                   [] t = <<"d","o","u","b","l","e">> -> 2
                   [] OTHER -> 0
        IN  /\ \A i \in 1..Len(last.taps) : last.taps[i] = TapPos
            /\ Len(last.taps) <= n
            /\ last.args.point = "none" =>
                  /\ Len(last.taps) = n
                  /\ n > 0 => last.exc = NoExc /\ last.returned
                  /\ n = 0 => last.exc.kind = "ValueError" /\ ~last.returned

\* 'DOUBLE' given for an element away from the origin: two taps sent there.
C29_Witness ==
    /\ Called(TapMethod)
    /\ last.args.type = <<"D","O","U","B","L","E">>
    /\ last.args.point = "none"
    /\ last.taps = <<TapPos, TapPos>>
    /\ TapPos # <<0, 0>>
    /\ last.returned

\* C23: a step changes the provider's handle only when it is a call of
\* create_driver, create_mobile_driver or quit_driver: the accessors, the
\* three readers, the page constructors and the page methods leave it as it is.
C23_OnlyCreateAndQuitChangeHandle ==
    [][driver' # driver =>
          last'.op \in {"create_driver", "create_mobile_driver", "quit_driver"}]_vars

\* A page method whose lookup failed ran on the live session: the provider
\* still holds the handle that create returned.
C23_Witness ==
    /\ last.op \in {"find_element", "find_elements"}
    /\ last.fault.kind = "WebDriverException"
    /\ driver # 0
    /\ driver = last.pre
    /\ driver = held
    /\ page = driver

\* The callers that have called quit_driver.
Entered == {t \in Callers : thr[t].pc # "idle" \/ thr[t].calls > 0}

\* C26: a session is asked to quit at most once for each caller that has
\* called quit_driver on the shared object, however often each calls it: a
\* single caller never asks twice, and a second request needs a second caller
\* (reached by C26_Witness).
C26_SecondQuitNeedsSecondCaller ==
    \A s \in 1..Len(opened) : opened[s].quits <= Cardinality(Entered)

\* Two callers passed the test of self.driver while the handle was live, and
\* the one session has been asked to quit twice.
C26_Witness ==
    /\ Cardinality(Entered) = 2
    /\ \A t \in Entered : thr[t].calls = 1 /\ thr[t].pc = "idle" /\ thr[t].ref = 1
    /\ opened[1].quits = 2
    /\ driver = 0

=============================================================================
